---- MODULE Spec2Model ----
(***************************************************************************)
(* Model of the MoreComments placeholder (praw/models/reddit/more.py) and  *)
(* of Multireddit.sluggify (asyncpraw/models/reddit/multi.py).             *)
(*                                                                         *)
(* Strings are sequences of one-character strings, so that join, split,    *)
(* strip, lower and slicing are computed as the code computes them.        *)
(***************************************************************************)
EXTENDS Integers, Sequences, FiniteSets, TLC

VARIABLES
    \* ---- MoreComments placeholder (more.py) ----
    count,        \* self.count
    children,     \* self.children: list of child IDs
    parent_id,    \* self.parent_id
    submission,   \* self.submission (the owning submission)
    cache,        \* self._comments: None or the list of resolved nodes
    nodeSub,      \* comment.submission of every comment node
    pc,           \* per task: where its comments() call stands
    upd,          \* per task: the update argument of its current call
    sawNone,      \* per task: self._comments was None when the call began
    callno,       \* per task: the number of its current call
    answer,       \* per task: what the transport answered to its current call
    res,          \* per task: how its last call ended
    log,          \* every request handed to the transport, in order
    okCalls,      \* number of calls that fetched and returned normally
    ncalls,       \* number of comments() calls started
    \* ---- comparing placeholders (more.py __eq__, __lt__) ----
    ph,           \* the objects compared: ph[1] is self, the others `other`
    ltRes,        \* None, or the results of ph[i] < ph[j]
    eqRes,        \* None, or the results of ph[i] == ph[j]
    \* ---- Multireddit.sluggify (multi.py) ----
    title,        \* the argument of sluggify
    slug,         \* None, or the value sluggify returned
    \* ---- the REST wrappers (redditor.py, multi.py, rules.py, mixins) ----
    rd,           \* the Redditor object
    mr,           \* the Multireddit object
    rule,         \* the local Rule object
    newRule,      \* the __dict__ of the Rule that get_rule makes
    filter,       \* the warnings filter in force for DeprecationWarning
    apiPc,        \* where the current call stands
    apiOp,        \* the operation called and its arguments
    apiLog,       \* the requests of the current call, in order
    apiAns,       \* the transport's answer the current call resumed with
    apiRes,       \* how the last call ended
    warned,       \* the warnings the current call has emitted
    unawaited,    \* coroutine objects the current call created and dropped
    authorGets,   \* fetches of the multireddit author's data that succeeded
    apiCalls      \* number of calls started

moreVars == <<count, children, parent_id, submission, cache, nodeSub, pc, upd,
              sawNone, callno, answer, res, log, okCalls, ncalls>>

cmpVars == <<ph, ltRes, eqRes>>

slugVars == <<title, slug>>

apiVars == <<rd, mr, rule, newRule, filter, apiPc, apiOp, apiLog, apiAns, apiRes, warned,
             unawaited, authorGets, apiCalls>>

vars == <<moreVars, cmpVars, slugVars, apiVars>>

----------------------------------------------------------------------------
\* Bounds of the model.
MaxCount == 1
MaxChildren == 2
MaxReplies == 2
MaxParents == 2
MaxCalls == 3
MaxTokens == 4
MaxApiCalls == 2
MaxRules == 3

Tasks == {"t1", "t2"}

----------------------------------------------------------------------------
\* Generic helpers on sequences.
Range(s) == {s[i] : i \in DOMAIN s}

SeqsUpTo(S, n) == UNION {[1..k -> S] : k \in 0..n}

\* Python optional values.
None == [some |-> FALSE, val |-> <<>>]
Some(v) == [some |-> TRUE, val |-> v]

\* Python str.join: the items with sep between every two neighbours.
RECURSIVE Join(_, _)
Join(sep, items) ==
    IF items = <<>> THEN <<>>
    ELSE IF Len(items) = 1 THEN items[1]
    ELSE items[1] \o sep \o Join(sep, Tail(items))

\* Index of the first occurrence of c in s, 0 when there is none.
RECURSIVE FindFrom(_, _, _)
FindFrom(s, c, i) ==
    IF i > Len(s) THEN 0
    ELSE IF s[i] = c THEN i
    ELSE FindFrom(s, c, i + 1)

\* Mutation: the split is made at the last occurrence of c.
SplitOnceSecond_Last(s, c) ==
    LET last == CHOOSE i \in DOMAIN s : s[i] = c /\ \A j \in (i + 1)..Len(s) : s[j] # c
    IN  SubSeq(s, last + 1, Len(s))

\* Python s.split(c, 1)[1]: what follows the first occurrence of c.
SplitOnceSecond(s, c) == SubSeq(s, FindFrom(s, c, 1) + 1, Len(s))

----------------------------------------------------------------------------
\* Inputs.
ChildIds == {<<"a">>, <<"b", "c">>}
ChildLists == SeqsUpTo(ChildIds, MaxChildren)
ParentIds == {<<"t", "1", "_", "x">>, <<"t", "1", "_", "y", "_", "z">>}
Submissions ==
    {[id |-> <<"s", "1">>, fullname |-> <<"t", "3", "_", "s", "1">>,
      comment_limit |-> 2048, comment_sort |-> "best"],
     [id |-> <<"s", "2">>, fullname |-> <<"t", "3", "_", "s", "2">>,
      comment_limit |-> 32, comment_sort |-> "new"]}
Errors == {"Forbidden", "ServerError"}

\* comment.submission of a node no one has set yet.
NoSub == <<>>

\* The comment objects a response to task t is parsed into.
Node(t, i) == <<t, i>>
AllNodes == {Node(t, i) : t \in Tasks, i \in 1..MaxReplies}
NodeLists(t) == {[i \in 1..k |-> Node(t, i)] : k \in 0..MaxReplies}

\* What the transport can answer: it raises, or returns parsed JSON.
PostResponses(t) ==
    {[ok |-> FALSE, err |-> e, body |-> <<>>] : e \in Errors}
    \cup {[ok |-> TRUE, err |-> "", body |-> l] : l \in NodeLists(t)}

\* A GET of a comment returns a listing of comments, each with its replies.
\* The replies of the comments of a listing that has not exactly one comment
\* are left empty: the code never reads them.
Listings(t) ==
    {<<l>> : l \in NodeLists(t)}
    \cup {[i \in 1..n |-> <<>>] : n \in (0..MaxParents) \ {1}}

GetResponses(t) ==
    {[ok |-> FALSE, err |-> e, body |-> <<>>] : e \in Errors}
    \cup {[ok |-> TRUE, err |-> "", body |-> l] : l \in Listings(t)}

NoAnswer == [ok |-> FALSE, err |-> "", body |-> <<>>]

API_PATH == [morechildren |-> "api/morechildren/", submission |-> "comments/{id}/"]

NoRequest ==
    [verb |-> "", endpoint |-> "", sub_id |-> <<>>, comment_id |-> <<>>,
     children |-> <<>>, link_id |-> <<>>, sort |-> "", limit |-> 0]

NoResult == [outcome |-> "none", value |-> <<>>, err |-> ""]

\* The requests the current call of task t handed to the transport.
Issued(t) == SelectSeq(log, LAMBDA e : e.call = callno[t])

\* The call of task t is suspended on its request.
Suspended(t) == pc[t] \in {"post", "get"}

----------------------------------------------------------------------------
\* The parts of the state an operation of another class leaves alone.
IdleMore ==
    /\ count = 0
    /\ children = <<>>
    /\ parent_id = <<"t", "1", "_", "x">>
    /\ submission \in {sub \in Submissions : sub.comment_sort = "best"}
    /\ cache = None
    /\ nodeSub = [n \in AllNodes |-> NoSub]
    /\ pc = [t \in Tasks |-> "idle"]
    /\ upd = [t \in Tasks |-> FALSE]
    /\ sawNone = [t \in Tasks |-> FALSE]
    /\ callno = [t \in Tasks |-> 0]
    /\ answer = [t \in Tasks |-> NoAnswer]
    /\ res = [t \in Tasks |-> NoResult]
    /\ log = <<>>
    /\ okCalls = 0
    /\ ncalls = 0

IdleCmp == ph = <<>> /\ ltRes = None /\ eqRes = None

IdleSlug == title = <<>> /\ slug = None

NoRedditor == [made |-> FALSE, name |-> None, _fullname |-> None, _fetched |-> FALSE]

NoApiResult == [outcome |-> "none", value |-> <<>>]

NoApiAnswer == [ok |-> FALSE, err |-> "", body |-> <<>>]

IdleApi ==
    /\ rd = NoRedditor
    /\ mr = [_fetched |-> FALSE, author_fetched |-> FALSE, subreddits |-> None,
             display_name |-> None]
    /\ rule = <<>>
    /\ newRule = <<>>
    /\ filter = "default"
    /\ apiPc = "idle"
    /\ apiOp = [name |-> ""]
    /\ apiLog = <<>>
    /\ apiAns = NoApiAnswer
    /\ apiRes = NoApiResult
    /\ warned = <<>>
    /\ unawaited = <<>>
    /\ authorGets = 0
    /\ apiCalls = 0

\* MoreComments.__init__ followed by the forest setting .submission
InitMore ==
    /\ count \in 0..MaxCount
    /\ children \in ChildLists
    /\ parent_id \in ParentIds
    /\ submission \in Submissions
    /\ cache = None
    /\ nodeSub = [n \in AllNodes |-> NoSub]
    /\ pc = [t \in Tasks |-> "idle"]
    /\ upd = [t \in Tasks |-> FALSE]
    /\ sawNone = [t \in Tasks |-> FALSE]
    /\ callno = [t \in Tasks |-> 0]
    /\ answer = [t \in Tasks |-> NoAnswer]
    /\ res = [t \in Tasks |-> NoResult]
    /\ log = <<>>
    /\ okCalls = 0
    /\ ncalls = 0
    /\ IdleCmp
    /\ IdleSlug
    /\ IdleApi

\* Mutation: only the first child ID is sent.
MoreChildrenRequest_FirstChild ==
    [verb |-> "POST", endpoint |-> API_PATH.morechildren, sub_id |-> <<>>,
     comment_id |-> <<>>, children |-> Join(<<",">>, SubSeq(children, 1, 1)),
     link_id |-> submission.fullname, sort |-> submission.comment_sort,
     limit |-> 0]

\* The request built by comments() for a batched placeholder.
MoreChildrenRequest ==
    [verb |-> "POST", endpoint |-> API_PATH.morechildren, sub_id |-> <<>>,
     comment_id |-> <<>>, children |-> Join(<<",">>, children),
     link_id |-> submission.fullname, sort |-> submission.comment_sort,
     limit |-> 0]

\* The request built by _load_comment(comment_id).
LoadCommentRequest(comment_id) ==
    [verb |-> "GET", endpoint |-> API_PATH.submission, sub_id |-> submission.id,
     comment_id |-> comment_id, children |-> <<>>, link_id |-> <<>>,
     sort |-> submission.comment_sort, limit |-> submission.comment_limit]

\* The call of task t ends: it returns value, or raises.
Finish(t, outcome, value, err) ==
    /\ pc' = [pc EXCEPT ![t] = "done"]
    /\ res' = [res EXCEPT ![t] = [outcome |-> outcome, value |-> value, err |-> err]]

\* A failed assert statement: AssertionError leaves the call at once.
AssertFails(t) ==
    /\ Finish(t, "AssertionError", <<>>, "")
    /\ UNCHANGED <<log, cache, nodeSub, okCalls>>

\* `await self._reddit.<verb>(...)`: the request goes to the transport and
\* the call is suspended until the answer arrives.
Await(t, r, where) ==
    /\ log' = Append(log, [call |-> ncalls + 1, req |-> r])
    /\ pc' = [pc EXCEPT ![t] = where]
    /\ UNCHANGED <<res, cache, nodeSub, okCalls>>

\* Mutation: the exception is swallowed and an empty result is cached.
TransportRaises_Swallowed(t, r) ==
    /\ Finish(t, "ok", <<>>, "")
    /\ cache' = Some(<<>>)
    /\ UNCHANGED <<nodeSub, okCalls, log>>

\* The awaited transport call raises: nothing catches the exception, so it
\* leaves comments() before the assignment to self._comments.
TransportRaises(t, r) ==
    /\ Finish(t, "error", <<>>, r.err)
    /\ UNCHANGED <<cache, nodeSub, okCalls, log>>

\* for comment in self._comments: comment.submission = self.submission
Propagate(nodes) ==
    [n \in AllNodes |-> IF n \in Range(nodes) THEN submission.id ELSE nodeSub[n]]

\* Mutation: an empty result is not kept (`if not self._comments`).
StoreAndReturn_EmptyNotCached(t, nodes) ==
    /\ cache' = IF nodes = <<>> THEN None ELSE Some(nodes)
    /\ nodeSub' = IF upd[t] THEN Propagate(nodes) ELSE nodeSub
    /\ Finish(t, "ok", nodes, "")
    /\ okCalls' = okCalls + 1
    /\ UNCHANGED log

\* Mutation: the submission is propagated whatever update is.
StoreAndReturn_AlwaysPropagate(t, nodes) ==
    /\ cache' = Some(nodes)
    /\ nodeSub' = Propagate(nodes)
    /\ Finish(t, "ok", nodes, "")
    /\ okCalls' = okCalls + 1
    /\ UNCHANGED log

\* self._comments = nodes; if update: propagate; return self._comments
StoreAndReturn(t, nodes) ==
    /\ cache' = Some(nodes)
    /\ nodeSub' = IF upd[t] THEN Propagate(nodes) ELSE nodeSub
    /\ Finish(t, "ok", nodes, "")
    /\ okCalls' = okCalls + 1
    /\ UNCHANGED log

\* _load_comment(comment_id), up to the await of the GET.
_load_comment(t, comment_id) == Await(t, LoadCommentRequest(comment_id), "get")

\* Mutation: the assert on self.children is missing.
_continue_comments_NoAssert(t) == _load_comment(t, SplitOnceSecond(parent_id, "_"))

\* _continue_comments(update), up to its suspension in _load_comment.
_continue_comments(t) ==
    IF children # <<>>
    THEN AssertFails(t)
    ELSE _load_comment(t, SplitOnceSecond(parent_id, "_"))

\* comments(update), up to its first suspension point.
comments(t, update) ==
    /\ pc[t] \in {"idle", "done"}
    /\ ncalls < MaxCalls
    /\ ncalls' = ncalls + 1
    /\ callno' = [callno EXCEPT ![t] = ncalls + 1]
    /\ upd' = [upd EXCEPT ![t] = update]
    /\ sawNone' = [sawNone EXCEPT ![t] = ~cache.some]
    /\ answer' = [answer EXCEPT ![t] = NoAnswer]
    /\ IF cache.some
       THEN \* return self._comments
            /\ Finish(t, "ok", cache.val, "")
            /\ UNCHANGED <<log, cache, nodeSub, okCalls>>
       ELSE IF count = 0
       THEN _continue_comments(t)
       ELSE IF children = <<>>
       THEN AssertFails(t)
       ELSE Await(t, MoreChildrenRequest, "post")
    /\ UNCHANGED <<count, children, parent_id, submission, cmpVars, slugVars, apiVars>>

\* comments() resumed after `await self._reddit.post(...)`.
comments_resume(t, r) ==
    /\ pc[t] = "post"
    /\ answer' = [answer EXCEPT ![t] = r]
    /\ IF ~r.ok
       THEN TransportRaises(t, r)
       ELSE StoreAndReturn(t, r.body)
    /\ UNCHANGED <<count, children, parent_id, submission, upd, sawNone,
                   callno, ncalls, cmpVars, slugVars, apiVars>>

\* _load_comment resumed after `await self._reddit.get(...)`, then the rest
\* of _continue_comments.
_load_comment_resume(t, r) ==
    /\ pc[t] = "get"
    /\ answer' = [answer EXCEPT ![t] = r]
    /\ IF ~r.ok
       THEN TransportRaises(t, r)
       ELSE IF Len(r.body) # 1
       THEN \* assert len(comments.children) == 1
            AssertFails(t)
       ELSE \* parent = comments.children[0]; self._comments = parent.replies
            StoreAndReturn(t, r.body[1])
    /\ UNCHANGED <<count, children, parent_id, submission, upd, sawNone,
                   callno, ncalls, cmpVars, slugVars, apiVars>>

NextMore ==
    \/ \E t \in Tasks, update \in BOOLEAN : comments(t, update)
    \/ \E t \in Tasks : \E r \in PostResponses(t) : comments_resume(t, r)
    \/ \E t \in Tasks : \E r \in GetResponses(t) : _load_comment_resume(t, r)

Init == InitMore
Next == NextMore
Spec == Init /\ [][Next]_vars

\* comments(update) called while no other call on the placeholder is in
\* flight: the calls follow one another.
comments_sequential(t, update) ==
    /\ \A u \in Tasks : ~Suspended(u)
    /\ comments(t, update)

NextSeq ==
    \/ \E t \in Tasks, update \in BOOLEAN : comments_sequential(t, update)
    \/ \E t \in Tasks : \E r \in PostResponses(t) : comments_resume(t, r)
    \/ \E t \in Tasks : \E r \in GetResponses(t) : _load_comment_resume(t, r)

SpecSeq == Init /\ [][NextSeq]_vars

----------------------------------------------------------------------------
\* Comparing placeholders: MoreComments.__eq__ and MoreComments.__lt__.

CmpCounts == {0, 5, 10}
CmpChildLists == {<<>>, <<<<"a">>>>, <<<<"a">>, <<"b", "c">>>>, <<<<"b", "c">>, <<"a">>>>}
CacheValues == {None, Some(<<>>)}

\* The attributes of a MoreComments object.
Placeholders ==
    [cls : {"MoreComments"}, count : CmpCounts, children : CmpChildLists,
     parent_id : ParentIds, submission : {sub.id : sub \in Submissions},
     _comments : CacheValues]

\* Objects of another class that carry the same attributes.
OtherObjects ==
    [cls : {"Other"}, count : CmpCounts, children : CmpChildLists,
     parent_id : {<<"t", "1", "_", "x">>}, submission : {<<"s", "1">>},
     _comments : {None}]

\* A third placeholder, to order more than two.
ThirdPlaceholders ==
    {p \in Placeholders :
        /\ p.children = <<>> /\ p.parent_id = <<"t", "1", "_", "x">>
        /\ p.submission = <<"s", "1">> /\ p._comments = None}

\* Mutation: the children are compared as sets.
__eq___Unordered(self, other) ==
    /\ other.cls = self.cls
    /\ self.count = other.count
    /\ Range(self.children) = Range(other.children)

\* isinstance(other, self.__class__) and self.count == other.count
\*     and self.children == other.children
__eq__(self, other) ==
    /\ other.cls = self.cls
    /\ self.count = other.count
    /\ self.children = other.children

\* Mutation: the natural, ascending order.
__lt___Ascending(self, other) == self.count < other.count

\* Mutation: the comparison is not strict.
__lt___NonStrict(self, other) == self.count >= other.count

\* return self.count > other.count
__lt__(self, other) == self.count > other.count

InitCmp ==
    /\ ph \in {<<a, b, c>> : a \in Placeholders,
                             b \in Placeholders \cup OtherObjects,
                             c \in ThirdPlaceholders}
    /\ ltRes = None
    /\ eqRes = None
    /\ IdleMore
    /\ IdleSlug
    /\ IdleApi

\* Every ph[i] < ph[j] is evaluated.
lt_call ==
    /\ ~ltRes.some
    /\ ltRes' = Some([i \in DOMAIN ph |-> [j \in DOMAIN ph |-> __lt__(ph[i], ph[j])]])
    /\ UNCHANGED <<ph, eqRes, moreVars, slugVars, apiVars>>

\* Every ph[i] == ph[j] is evaluated.
eq_call ==
    /\ ~eqRes.some
    /\ eqRes' = Some([i \in DOMAIN ph |-> [j \in DOMAIN ph |-> __eq__(ph[i], ph[j])]])
    /\ UNCHANGED <<ph, ltRes, moreVars, slugVars, apiVars>>

NextCmp ==
    \/ lt_call
    \/ eq_call

SpecCmp == InitCmp /\ [][NextCmp]_vars

----------------------------------------------------------------------------
\* Multireddit.sluggify.

\* The characters of the model: ASCII letters, digits, the underscore,
\* ASCII characters that are no word characters, and non-ASCII letters.
\* "U+0130" is the capital I with dot above, whose lower case is the
\* two characters i and "U+0307" (combining dot above, no word character).
AsciiLower == {"a", "b", "c", "d", "e", "f", "g", "h", "i"}
AsciiUpper == {"A", "B"}
AsciiDigits == {"0", "1"}
AsciiNonWord == {" ", "-"}
UnicodeWord == {"e-acute", "E-acute", "U+0130"}
UnicodeNonWord == {"U+0307"}

Ascii == AsciiLower \cup AsciiUpper \cup AsciiDigits \cup AsciiNonWord \cup {"_"}

\* The regular expression class \w under re.UNICODE, without the underscore.
IsAlnum(c) == c \in AsciiLower \cup AsciiUpper \cup AsciiDigits \cup UnicodeWord

\* RE_INVALID = re.compile(r"[\W_]+", re.UNICODE): one character of the class.
RE_INVALID(c) == ~IsAlnum(c)

\* RE_INVALID.sub("_", title): every maximal run of the class becomes one "_".
RECURSIVE Sub(_)
Sub(s) ==
    IF s = <<>> THEN <<>>
    ELSE IF RE_INVALID(s[1])
         THEN IF Len(s) >= 2 /\ RE_INVALID(s[2])
              THEN Sub(Tail(s))
              ELSE <<"_">> \o Sub(Tail(s))
         ELSE <<s[1]>> \o Sub(Tail(s))

\* str.strip("_")
RECURSIVE LStrip(_)
LStrip(s) == IF s # <<>> /\ s[1] = "_" THEN LStrip(Tail(s)) ELSE s

RECURSIVE RStrip(_)
RStrip(s) ==
    IF s # <<>> /\ s[Len(s)] = "_" THEN RStrip(SubSeq(s, 1, Len(s) - 1)) ELSE s

Strip(s) == RStrip(LStrip(s))

\* Mutation: no lower-casing.
LowerChar_Identity(c) == <<c>>

\* str.lower() of one character: a string of one or two characters.
LowerChar(c) ==
    CASE c = "A" -> <<"a">>
      [] c = "B" -> <<"b">>
      [] c = "E-acute" -> <<"e-acute">>
      [] c = "U+0130" -> <<"i", "U+0307">>
      [] OTHER -> <<c>>

\* str.lower()
RECURSIVE Lower(_)
Lower(s) == IF s = <<>> THEN <<>> ELSE LowerChar(s[1]) \o Lower(Tail(s))

\* str.rfind("_") + 1: the position of the last "_", 0 when there is none.
RECURSIVE RFind(_, _)
RFind(s, c) ==
    IF s = <<>> THEN 0
    ELSE IF s[Len(s)] = c THEN Len(s)
    ELSE RFind(SubSeq(s, 1, Len(s) - 1), c)

\* The length sluggify truncates to.
SlugLimit == 21

\* Mutation: the cut is not moved back to the last word break.
Truncate_NoWordBreak(t) == SubSeq(t, 1, SlugLimit)

\* Mutation: the word break is kept at the end of the cut.
Truncate_KeepBreak(t) ==
    LET cut == SubSeq(t, 1, SlugLimit)
        last_word == RFind(cut, "_") - 1
    IN  IF last_word > 0 THEN SubSeq(cut, 1, last_word + 1) ELSE cut

\* Mutation: a title without word break is not cut.
Truncate_OnlyAtWord(t) ==
    LET cut == SubSeq(t, 1, SlugLimit)
        last_word == RFind(cut, "_") - 1
    IN  IF last_word > 0 THEN SubSeq(cut, 1, last_word) ELSE t

\* The body of `if len(title) > 21:`
Truncate(t) ==
    LET cut == SubSeq(t, 1, SlugLimit)
        last_word == RFind(cut, "_") - 1
    IN  IF last_word > 0 THEN SubSeq(cut, 1, last_word) ELSE cut

\* title = RE_INVALID.sub("_", title).strip("_").lower()
Clean(t) == Lower(Strip(Sub(t)))

sluggify(t) ==
    LET cleaned == Clean(t)
        short == IF Len(cleaned) > SlugLimit THEN Truncate(cleaned) ELSE cleaned
    IN  IF short = <<>> THEN <<"_">> ELSE short

\* The titles of the model are made of a few pieces, so that short and long
\* ones, with and without word breaks around the limit, all occur.
Tokens ==
    {<<"a", "b">>,
     <<"A", "b", "c", "1", "d", "e", "f", "g", "h", "i">>,
     <<"_">>,
     <<" ", "-">>,
     <<"E-acute">>,
     <<"U+0130">>}

RECURSIVE Concat(_)
Concat(ss) == IF ss = <<>> THEN <<>> ELSE ss[1] \o Concat(Tail(ss))

Titles == {Concat(ts) : ts \in SeqsUpTo(Tokens, MaxTokens)}

InitSlug ==
    /\ title \in Titles
    /\ slug = None
    /\ IdleMore
    /\ IdleCmp
    /\ IdleApi

\* slug = Multireddit.sluggify(title)
sluggify_call ==
    /\ ~slug.some
    /\ slug' = Some(sluggify(title))
    /\ UNCHANGED <<title, moreVars, cmpVars, apiVars>>

NextSlug ==
    \/ sluggify_call

SpecSlug == InitSlug /\ [][NextSlug]_vars

----------------------------------------------------------------------------
\* The REST wrappers: Redditor, Multireddit, the rule classes and the mixins.
\* One call runs at a time; it is split at every await.

\* A Python dict is a function from its keys; {} is the empty function.
EmptyDict == [k \in {} |-> ""]

\* Truthiness of a str and of a dict.
TruthyStr(x) == x # ""
TruthyDict(d) == DOMAIN d # {}

\* A call begins.
ApiStart(op) ==
    /\ apiPc = "idle"
    /\ apiCalls < MaxApiCalls
    /\ apiCalls' = apiCalls + 1
    /\ apiOp' = op
    /\ apiAns' = NoApiAnswer

\* A call that emits no warning and creates no coroutine object begins.
ApiStartQuiet(op) ==
    /\ ApiStart(op)
    /\ warned' = <<>>
    /\ unawaited' = <<>>

\* A suspended call resumes at stage with the transport's answer r.
ApiResume(stage, r) ==
    /\ apiPc = stage
    /\ apiAns' = r

\* The call returns value, or raises the exception named by outcome.
ApiReturn(outcome, value) ==
    /\ apiPc' = "done"
    /\ apiRes' = [outcome |-> outcome, value |-> value]

\* `await self._reddit.<verb>(...)`: request r is handed to the transport after
\* the requests sent so far and the call is suspended at stage.
ApiAwait(sent, r, stage) ==
    /\ apiLog' = Append(sent, r)
    /\ apiPc' = stage
    /\ apiRes' = NoApiResult

\* What the transport answers to a request whose result the caller ignores.
PlainResponses ==
    {[ok |-> FALSE, err |-> e, body |-> <<>>] : e \in Errors}
    \cup {[ok |-> TRUE, err |-> "", body |-> <<>>]}

----------------------------------------------------------------------------
\* Redditor (redditor.py).

NameArgs == {None, Some(""), Some("spez")}
FullnameArgs == {None, Some(""), Some("t2_abc")}
DataArgs == {None, Some(EmptyDict), Some([name |-> "spez"]), Some([id |-> "abc"])}

\* (name, fullname, _data).count(None)
CountNone(name, fullname, _data) ==
    Cardinality({i \in 1..3 : <<name, fullname, _data>>[i] = None})

\* Redditor.__init__(reddit, name, fullname, _data)
Redditor__init__(name, fullname, _data) ==
    /\ ApiStartQuiet([name |-> "Redditor", a_name |-> name,
                      a_fullname |-> fullname, a_data |-> _data])
    /\ apiLog' = <<>>
    /\ IF CountNone(name, fullname, _data) # 2
       THEN /\ ApiReturn("TypeError", <<>>)
            /\ UNCHANGED rd
       ELSE IF _data.some /\ TruthyDict(_data.val) /\ "name" \notin DOMAIN _data.val
       THEN /\ ApiReturn("AssertionError", <<>>)
            /\ UNCHANGED rd
       ELSE /\ ApiReturn("ok", <<>>)
            /\ rd' = [made |-> TRUE,
                      name |-> IF name.some /\ TruthyStr(name.val) THEN name
                               ELSE IF _data.some /\ "name" \in DOMAIN _data.val
                                    THEN Some(_data.val.name)
                                    ELSE None,
                      _fullname |-> IF name.some /\ TruthyStr(name.val) THEN None
                                    ELSE IF fullname.some /\ TruthyStr(fullname.val)
                                         THEN fullname
                                         ELSE None,
                      _fetched |-> FALSE]
    /\ UNCHANGED <<mr, rule, newRule, filter, authorGets, moreVars,
                   cmpVars, slugVars>>

\* The bounds of gild's months argument.
GildMin == 1

GildMax == 36
MonthsArgs == {GildMin - 2, GildMin - 1, GildMin, GildMin + 1, GildMax - 1,
               GildMax, GildMax + 1}

\* The operations below read the redditor's name.
HasName == rd.made /\ rd.name.some

\* Mutation: 36 months are refused.
Redditor_gild_Exclusive(months) ==
    /\ HasName
    /\ ApiStartQuiet([name |-> "gild", months |-> months])
    /\ IF months < GildMin \/ months >= GildMax
       THEN /\ ApiReturn("TypeError", <<>>)
            /\ apiLog' = <<>>
       ELSE ApiAwait(<<>>, [verb |-> "POST", path |-> <<"gild_user", rd.name.val>>,
                            data |-> [months |-> months]], "redditor")
    /\ UNCHANGED <<rd, mr, rule, newRule, filter, authorGets, moreVars, cmpVars, slugVars>>

\* Redditor.gild(months)
Redditor_gild(months) ==
    /\ HasName
    /\ ApiStartQuiet([name |-> "gild", months |-> months])
    /\ IF months < GildMin \/ months > GildMax
       THEN /\ ApiReturn("TypeError", <<>>)
            /\ apiLog' = <<>>
       ELSE ApiAwait(<<>>, [verb |-> "POST", path |-> <<"gild_user", rd.name.val>>,
                            data |-> [months |-> months]], "redditor")
    /\ UNCHANGED <<rd, mr, rule, newRule, filter, authorGets, moreVars,
                   cmpVars, slugVars>>

\* Redditor.block()
Redditor_block ==
    /\ HasName
    /\ ApiStartQuiet([name |-> "block"])
    /\ ApiAwait(<<>>, [verb |-> "POST", path |-> <<"block_user">>,
                       params |-> [name |-> rd.name.val]], "redditor")
    /\ UNCHANGED <<rd, mr, rule, newRule, filter, authorGets, moreVars,
                   cmpVars, slugVars>>

\* Redditor.trust()
Redditor_trust ==
    /\ HasName
    /\ ApiStartQuiet([name |-> "trust"])
    /\ ApiAwait(<<>>, [verb |-> "POST", path |-> <<"add_whitelisted">>,
                       data |-> [name |-> rd.name.val]], "redditor")
    /\ UNCHANGED <<rd, mr, rule, newRule, filter, authorGets, moreVars,
                   cmpVars, slugVars>>

\* Redditor._friend(method, data)
_friend(method, data) ==
    ApiAwait(<<>>, [verb |-> method, path |-> <<"friend_v1", rd.name.val>>,
                    data |-> data], "redditor")

NoteArgs == {None, Some(""), Some("admin")}

\* Redditor.friend(note)
Redditor_friend(note) ==
    /\ HasName
    /\ ApiStartQuiet([name |-> "friend", note |-> note])
    /\ _friend("PUT", IF note.some /\ TruthyStr(note.val)
                      THEN [note |-> note.val] ELSE EmptyDict)
    /\ UNCHANGED <<rd, mr, rule, newRule, filter, authorGets, moreVars,
                   cmpVars, slugVars>>

\* Redditor.unfriend()
Redditor_unfriend ==
    /\ HasName
    /\ ApiStartQuiet([name |-> "unfriend"])
    /\ _friend("DELETE", [id |-> rd.name.val])
    /\ UNCHANGED <<rd, mr, rule, newRule, filter, authorGets, moreVars,
                   cmpVars, slugVars>>

\* The request of reddit.user.me() when the authenticated user is not cached.
MeRequest == [verb |-> "GET", path |-> <<"me">>, data |-> EmptyDict]

\* The POST of Redditor.unblock()
UnblockRequest ==
    [verb |-> "POST", path |-> <<"unfriend", "all">>,
     data |-> [container |-> "t2_me", name |-> rd.name.val, type |-> "enemy"]]

\* `await self._reddit.user.me()` followed by the await of request: me()
\* returns the cached user, or asks for it and suspends the call at mestage.
me(sent, mestage, request, stage) ==
    \E cached \in BOOLEAN :
        IF cached
        THEN ApiAwait(sent, request, stage)
        ELSE ApiAwait(sent, MeRequest, mestage)

\* Redditor.unblock(), up to its first await.
Redditor_unblock ==
    /\ HasName
    /\ ApiStartQuiet([name |-> "unblock"])
    /\ me(<<>>, "unblock_me", UnblockRequest, "redditor")
    /\ UNCHANGED <<rd, mr, rule, newRule, filter, authorGets, moreVars,
                   cmpVars, slugVars>>

\* Redditor.unblock() resumed after `await self._reddit.user.me()`.
Redditor_unblock_resume(r) ==
    /\ ApiResume("unblock_me", r)
    /\ IF ~r.ok
       THEN ApiReturn(r.err, <<>>) /\ UNCHANGED apiLog
       ELSE ApiAwait(apiLog, UnblockRequest, "redditor")
    /\ UNCHANGED <<rd, mr, rule, newRule, filter, apiOp, warned, unawaited, authorGets,
                   apiCalls, moreVars, cmpVars, slugVars>>

\* A Redditor operation resumed after its own request: it returns None, or
\* the exception of the transport leaves it.
Redditor_resume(r) ==
    /\ ApiResume("redditor", r)
    /\ ApiReturn(IF r.ok THEN "ok" ELSE r.err, <<>>)
    /\ UNCHANGED <<rd, mr, rule, newRule, filter, apiOp, apiLog, warned, unawaited,
                   authorGets, apiCalls, moreVars, cmpVars, slugVars>>

----------------------------------------------------------------------------
\* ReplyableMixin (replyable.py) and VotableMixin (votable.py).

Fullnames == {"t1_c1", "t3_s1"}
Bodies == {"", "hi"}

\* The comments a reply request returns.
ReplyResponses ==
    {[ok |-> FALSE, err |-> e, body |-> <<>>] : e \in Errors}
    \cup {[ok |-> TRUE, err |-> "", body |-> b] :
            b \in {<<>>, <<"comment1">>, <<"comment1", "comment2">>}}

\* ReplyableMixin.reply(body), up to the await of the POST.
reply(self, body) ==
    /\ ApiStartQuiet([name |-> "reply", self |-> self, body |-> body])
    /\ ApiAwait(<<>>, [verb |-> "POST", path |-> <<"comment">>,
                       data |-> [text |-> body, thing_id |-> self]], "reply")
    /\ UNCHANGED <<rd, mr, rule, newRule, filter, authorGets, moreVars,
                   cmpVars, slugVars>>

\* Mutation: the IndexError of an empty response leaves reply().
reply_resume_IndexError(r) ==
    /\ ApiResume("reply", r)
    /\ IF ~r.ok THEN ApiReturn(r.err, <<>>)
       ELSE IF r.body = <<>> THEN ApiReturn("IndexError", <<>>)
       ELSE ApiReturn("ok", Some(r.body[1]))
    /\ UNCHANGED <<rd, mr, rule, newRule, filter, apiOp, apiLog, warned, unawaited,
                   authorGets, apiCalls, moreVars, cmpVars, slugVars>>

\* reply() resumed: try: return comments[0]; except IndexError: return None
reply_resume(r) ==
    /\ ApiResume("reply", r)
    /\ IF ~r.ok THEN ApiReturn(r.err, <<>>)
       ELSE IF r.body = <<>> THEN ApiReturn("ok", None)
       ELSE ApiReturn("ok", Some(r.body[1]))
    /\ UNCHANGED <<rd, mr, rule, newRule, filter, apiOp, apiLog, warned, unawaited,
                   authorGets, apiCalls, moreVars, cmpVars, slugVars>>

\* The body of the coroutine function VotableMixin._vote(direction): the
\* request it would send when run.
_vote(self, direction) ==
    [verb |-> "POST", path |-> <<"vote">>,
     data |-> [dir |-> ToString(direction), id |-> self]]

\* clear_vote(), downvote() and upvote() are plain functions: each calls the
\* coroutine function _vote without await, which only creates a coroutine
\* object; nothing runs it, and the function returns None.
Vote(self, opname, direction) ==
    /\ ApiStart([name |-> opname, self |-> self])
    /\ unawaited' = <<_vote(self, direction)>>
    /\ warned' = <<>>
    /\ apiLog' = <<>>
    /\ ApiReturn("ok", None)
    /\ UNCHANGED <<rd, mr, rule, newRule, filter, authorGets, moreVars, cmpVars, slugVars>>

clear_vote(self) == Vote(self, "clear_vote", 0)

downvote(self) == Vote(self, "downvote", -1)

upvote(self) == Vote(self, "upvote", 1)

----------------------------------------------------------------------------
\* Rule, SubredditRules, RuleModeration, SubredditRulesModeration (rules.py).

\* str(subreddit) of the subreddit that owns the rules.
Subreddit == "test"

r1 == <<"r", "1">>
r2 == <<"r", "2">>
r3 == <<"r", "3">>
ab == <<"a", " ", "b">>
ShortNames == {r1, r2, r3, ab}

\* A rule as the parser builds it from a response: the objector does not know
\* the subreddit.
ParsedRule(short_name) ==
    [short_name |-> short_name, description |-> <<"d">>, kind |-> <<"a", "l", "l">>,
     violation_reason |-> <<"v">>, subreddit |-> None]

\* The local rule objects: their subreddit has been set.
LocalRules ==
    {[short_name |-> r1, description |-> <<"o", "l", "d">>, kind |-> <<"a", "l", "l">>,
      violation_reason |-> <<"s">>, subreddit |-> Some(Subreddit)],
     [short_name |-> ab, description |-> <<>>, kind |-> <<"l", "i", "n", "k">>,
      violation_reason |-> <<>>, subreddit |-> Some(Subreddit)]}

\* The rule lists the server answers with.
RuleBodies ==
    {<<>>, <<ParsedRule(r1)>>, <<ParsedRule(r2), ParsedRule(r1)>>,
     <<ParsedRule(r3), ParsedRule(r1), ParsedRule(r2)>>,
     <<ParsedRule(r2), ParsedRule(r1), [ParsedRule(r1) EXCEPT !.description = <<"e">>]>>}

RuleResponses ==
    {[ok |-> FALSE, err |-> e, body |-> <<>>] : e \in Errors}
    \cup {[ok |-> TRUE, err |-> "", body |-> b] : b \in RuleBodies}

\* The lists of distinct rules a caller passes to reorder.
RuleLists ==
    {[i \in DOMAIN ns |-> [ParsedRule(ns[i]) EXCEPT !.subreddit = Some(Subreddit)]] :
        ns \in {q \in SeqsUpTo(ShortNames, MaxRules) :
                   \A i, j \in DOMAIN q : i # j => q[i] # q[j]}}

\* `rule.subreddit = subreddit` for each rule of a list.
SetSubreddit(rules) ==
    [i \in DOMAIN rules |-> [rules[i] EXCEPT !.subreddit = Some(Subreddit)]]

\* urllib.parse.quote: letters, digits and "_.-~" are never quoted, nor are
\* the characters of safe; any other character becomes %XX.
QuoteNever == {"r", "a", "b", "1", "2", "3", "9", "_", ".", "-", "~"}

PercentCode(c) ==
    CASE c = " " -> <<"%", "2", "0">>
      [] c = "," -> <<"%", "2", "C">>
      [] c = "/" -> <<"%", "2", "F">>

quote(string, safe) ==
    Concat([i \in DOMAIN string |->
              IF string[i] \in QuoteNever \cup safe THEN <<string[i]>>
              ELSE PercentCode(string[i])])

\* Mutation: the commas are escaped as well.
ReorderRequest_NoSafe(rule_list) ==
    [verb |-> "POST", path |-> <<"reorder_subreddit_rules">>,
     data |-> [r |-> Subreddit,
               new_rule_order |->
                   quote(Join(<<",">>, [i \in DOMAIN rule_list |-> rule_list[i].short_name]),
                         {})]]

\* The request of SubredditRulesModeration.reorder(rule_list)
ReorderRequest(rule_list) ==
    [verb |-> "POST", path |-> <<"reorder_subreddit_rules">>,
     data |-> [r |-> Subreddit,
               new_rule_order |->
                   quote(Join(<<",">>, [i \in DOMAIN rule_list |-> rule_list[i].short_name]),
                         {","})]]

\* SubredditRulesModeration.reorder(rule_list), up to the await of the POST.
reorder(rule_list) ==
    /\ ApiStartQuiet([name |-> "reorder", rule_list |-> rule_list])
    /\ ApiAwait(<<>>, ReorderRequest(rule_list), "reorder")
    /\ UNCHANGED <<rd, mr, rule, newRule, filter, authorGets, moreVars, cmpVars, slugVars>>

\* reorder() resumed: every rule of the response gets the subreddit and the
\* response is returned.
reorder_resume(r) ==
    /\ ApiResume("reorder", r)
    /\ IF ~r.ok THEN ApiReturn(r.err, <<>>)
       ELSE ApiReturn("ok", SetSubreddit(r.body))
    /\ UNCHANGED <<rd, mr, rule, newRule, filter, apiOp, apiLog, warned, unawaited,
                   authorGets, apiCalls, moreVars, cmpVars, slugVars>>

AddShortNames == {r1, ab}
AddKinds == {<<"a", "l", "l">>}
\* A keyword argument the caller leaves out, or passes.
NotPassed == [passed |-> FALSE]
Passed(v) == [passed |-> TRUE, val |-> v]

\* The value of a parameter that has a default.
Parameter(arg, default) == IF arg.passed THEN arg.val ELSE default

AddDescriptions == {NotPassed, Passed(<<"d">>)}
AddReasons == {None, Some(<<>>), Some(<<"s">>)}

\* Mutation: an empty violation_reason counts as not specified.
AddReason_Falsy(short_name, violation_reason) ==
    IF violation_reason = None \/ violation_reason.val = <<>> THEN short_name
    ELSE violation_reason.val

\* "violation_reason": short_name if violation_reason is None else violation_reason
AddReason(short_name, violation_reason) ==
    IF violation_reason = None THEN short_name ELSE violation_reason.val

\* SubredditRulesModeration.add(short_name, kind, description, violation_reason)
add(short_name, kind, description, violation_reason) ==
    /\ ApiStartQuiet([name |-> "rules.add", short_name |-> short_name, kind |-> kind,
                      description |-> description,
                      violation_reason |-> violation_reason])
    /\ ApiAwait(<<>>, [verb |-> "POST", path |-> <<"add_subreddit_rule">>,
                       data |-> [r |-> Subreddit,
                                 description |-> Parameter(description, <<>>),
                                 kind |-> kind, short_name |-> short_name,
                                 violation_reason |->
                                     AddReason(short_name, violation_reason)]],
                "response0")
    /\ UNCHANGED <<rd, mr, rule, newRule, filter, authorGets, moreVars, cmpVars, slugVars>>

UpdateDescriptions == {None, Some(<<>>), Some(<<"n", "e", "w">>)}
UpdateKinds == {None, Some(<<"l", "i", "n", "k">>)}
UpdateShortNames == {None, Some(<<>>), Some(r2)}
UpdateReasons == {None, Some(<<>>)}

\* Mutation: an empty string counts as not given.
UpdateField_Falsy(value, existing) ==
    IF value = None \/ value.val = <<>> THEN existing ELSE value.val

\* data[name] = getattr(self.rule, name) if value is None else value
UpdateField(value, existing) ==
    IF value = None THEN existing ELSE value.val

\* RuleModeration.update(description, kind, short_name, violation_reason), up
\* to the await of the POST.
update(description, kind, short_name, violation_reason) ==
    /\ ApiStartQuiet([name |-> "rule.update", description |-> description,
                      kind |-> kind, short_name |-> short_name,
                      violation_reason |-> violation_reason])
    /\ ApiAwait(<<>>, [verb |-> "POST", path |-> <<"update_subreddit_rule">>,
                       data |-> [r |-> rule.subreddit.val,
                                 old_short_name |-> rule.short_name,
                                 description |-> UpdateField(description, rule.description),
                                 kind |-> UpdateField(kind, rule.kind),
                                 short_name |-> UpdateField(short_name, rule.short_name),
                                 violation_reason |->
                                     UpdateField(violation_reason, rule.violation_reason)]],
                "response0")
    /\ UNCHANGED <<rd, mr, rule, newRule, filter, authorGets, moreVars, cmpVars, slugVars>>

\* add() and update() resumed: the first rule of the response gets the
\* subreddit and is returned; an empty response raises IndexError.
response0_resume(r) ==
    /\ ApiResume("response0", r)
    /\ IF ~r.ok THEN ApiReturn(r.err, <<>>)
       ELSE IF r.body = <<>> THEN ApiReturn("IndexError", <<>>)
       ELSE ApiReturn("ok", SetSubreddit(r.body)[1])
    /\ UNCHANGED <<rd, mr, rule, newRule, filter, apiOp, apiLog, warned, unawaited,
                   authorGets, apiCalls, moreVars, cmpVars, slugVars>>

\* RuleModeration.delete(), up to the await of the POST.
delete ==
    /\ ApiStartQuiet([name |-> "rule.delete"])
    /\ ApiAwait(<<>>, [verb |-> "POST", path |-> <<"remove_subreddit_rule">>,
                       data |-> [r |-> rule.subreddit.val,
                                 short_name |-> rule.short_name]], "ignore")
    /\ UNCHANGED <<rd, mr, rule, newRule, filter, authorGets, moreVars, cmpVars, slugVars>>

\* An operation that ignores the response resumed: it returns None.
ignore_resume(r) ==
    /\ ApiResume("ignore", r)
    /\ ApiReturn(IF r.ok THEN "ok" ELSE r.err, <<>>)
    /\ UNCHANGED <<rd, mr, rule, newRule, filter, apiOp, apiLog, warned, unawaited,
                   authorGets, apiCalls, moreVars, cmpVars, slugVars>>

\* The GET of the subreddit's rules.
RulesRequest == [verb |-> "GET", path |-> <<"rules", Subreddit>>, data |-> EmptyDict]

\* The warning of SubredditRules.__call__
CallDeprecation ==
    [category |-> "DeprecationWarning",
     message |-> "Calling SubredditRules to get a list of rules is deprecated."]

Filters == {"default", "ignore", "error"}

\* Mutation: the request is sent although the warning is an error.
__call___Unfiltered ==
    /\ ApiStart([name |-> "__call__"])
    /\ warned' = <<CallDeprecation>>
    /\ unawaited' = <<>>
    /\ ApiAwait(<<>>, RulesRequest, "__call__")
    /\ UNCHANGED <<rd, mr, rule, newRule, filter, authorGets, moreVars, cmpVars, slugVars>>

\* SubredditRules.__call__(), up to its await: warn() raises the warning when
\* the filter turns it into an error.
__call__ ==
    /\ ApiStart([name |-> "__call__"])
    /\ warned' = <<CallDeprecation>>
    /\ unawaited' = <<>>
    /\ IF filter = "error"
       THEN ApiReturn("DeprecationWarning", <<>>) /\ apiLog' = <<>>
       ELSE ApiAwait(<<>>, RulesRequest, "__call__")
    /\ UNCHANGED <<rd, mr, rule, newRule, filter, authorGets, moreVars, cmpVars, slugVars>>

\* __call__() resumed: the response is returned as it is.
__call___resume(r) ==
    /\ ApiResume("__call__", r)
    /\ IF ~r.ok THEN ApiReturn(r.err, <<>>) ELSE ApiReturn("ok", r.body)
    /\ UNCHANGED <<rd, mr, rule, newRule, filter, apiOp, apiLog, warned, unawaited,
                   authorGets, apiCalls, moreVars, cmpVars, slugVars>>

\* SubredditRules._rule_list(), up to the await of the GET.
_rule_list == ApiAwait(<<>>, RulesRequest, "get_rule")

\* The str, int and slice arguments of get_rule; a slice without start or
\* stop has None there.
GetRuleArgs ==
    {[type |-> "str", str |-> n] : n \in {r1, <<"r", "9">>}}
    \cup {[type |-> "int", int |-> i] : i \in {0, 1, -1, 3, -4}}
    \cup {[type |-> "slice", start |-> -2], [type |-> "slice", start |-> 1, stop |-> 5],
          [type |-> "slice", stop |-> -1]}

\* isinstance(x, str)
IsStr(x) == x.type = "str"

\* Rule.__init__(reddit, subreddit, short_name) with a non-empty short_name.
Rule__init__(subreddit, short_name) ==
    [short_name |-> short_name, subreddit |-> Some(subreddit), _fetched |-> FALSE]

\* SubredditRules.get_rule(short_name): both branches await _rule_list(), the
\* str branch through Rule._fetch and SubredditRules.__aiter__.
get_rule(short_name) ==
    /\ ApiStartQuiet([name |-> "get_rule", short_name |-> short_name])
    /\ _rule_list
    /\ newRule' = IF IsStr(short_name) THEN Rule__init__(Subreddit, short_name.str)
                  ELSE <<>>
    /\ UNCHANGED <<rd, mr, rule, filter, authorGets, moreVars, cmpVars, slugVars>>

\* Mutation: the rules are numbered from 1.
Index_OneBased(rules, index) ==
    IF index >= 1 /\ index <= Len(rules) THEN Some(rules[index])
    ELSE IF index < 0 /\ -index <= Len(rules) THEN Some(rules[Len(rules) + index + 1])
    ELSE None

\* rules[index] of a Python list.
Index(rules, index) ==
    IF index >= 0 /\ index < Len(rules) THEN Some(rules[index + 1])
    ELSE IF index < 0 /\ -index <= Len(rules) THEN Some(rules[Len(rules) + index + 1])
    ELSE None

\* A bound of a slice, brought into 0..n as list slicing does.
SliceBound(x, n) ==
    IF x < 0 THEN (IF x + n < 0 THEN 0 ELSE x + n)
    ELSE IF x > n THEN n ELSE x

\* rules[slice(start, stop)] of a Python list.
Slice(rules, sl) ==
    LET n == Len(rules)
        lo == IF "start" \in DOMAIN sl THEN SliceBound(sl.start, n) ELSE 0
        hi == IF "stop" \in DOMAIN sl THEN SliceBound(sl.stop, n) ELSE n
    IN  SubSeq(rules, lo + 1, hi)

\* dict.update
DictUpdate(self, other) ==
    [k \in DOMAIN self \cup DOMAIN other |->
        IF k \in DOMAIN other THEN other[k] ELSE self[k]]

\* Mutation: the last rule that has the short name is taken.
FirstNamed_Last(rules, short_name) ==
    IF \E i \in DOMAIN rules : rules[i].short_name = short_name
    THEN Some(rules[CHOOSE i \in DOMAIN rules :
                      /\ rules[i].short_name = short_name
                      /\ \A j \in (i + 1)..Len(rules) : rules[j].short_name # short_name])
    ELSE None

\* Rule._fetch: the first rule of the listing that has the short name.
FirstNamed(rules, short_name) ==
    IF \E i \in DOMAIN rules : rules[i].short_name = short_name
    THEN Some(rules[CHOOSE i \in DOMAIN rules :
                      /\ rules[i].short_name = short_name
                      /\ \A j \in 1..(i - 1) : rules[j].short_name # short_name])
    ELSE None

\* get_rule() resumed with the rule list: Rule._fetch goes on for a str,
\* `rules[short_name]` is returned otherwise.
get_rule_resume(r) ==
    /\ ApiResume("get_rule", r)
    /\ IF ~r.ok THEN ApiReturn(r.err, <<>>) /\ UNCHANGED newRule
       ELSE IF IsStr(apiOp.short_name)
       THEN LET found == FirstNamed(SetSubreddit(r.body), newRule.short_name)
            IN  IF found.some
                THEN /\ newRule' = [DictUpdate(newRule, found.val) EXCEPT !._fetched = TRUE]
                     /\ ApiReturn("ok", newRule')
                ELSE ApiReturn("ClientException", <<>>) /\ UNCHANGED newRule
       ELSE IF apiOp.short_name.type = "int"
       THEN LET found == Index(SetSubreddit(r.body), apiOp.short_name.int)
            IN  /\ IF found.some THEN ApiReturn("ok", found.val)
                   ELSE ApiReturn("IndexError", <<>>)
                /\ UNCHANGED newRule
       ELSE /\ ApiReturn("ok", Slice(SetSubreddit(r.body), apiOp.short_name))
            /\ UNCHANGED newRule
    /\ UNCHANGED <<rd, mr, rule, filter, apiOp, apiLog, warned, unawaited,
                   authorGets, apiCalls, moreVars, cmpVars, slugVars>>

----------------------------------------------------------------------------
\* Multireddit (multi.py).

\* The multireddit's name and its author's, from its path.
MultiName == "m1"
Author == "alice"

\* The object Multireddit.__init__ builds: its _author is a new Redditor, not
\* fetched; subreddits is set when the data has it.
Multireddit__init__(subreddits, display_name) ==
    [_fetched |-> FALSE, author_fetched |-> FALSE, subreddits |-> subreddits,
     display_name |-> display_name]

\* Redditor._fetch_data of the author, who was made from a name.
AuthorRequest == [verb |-> "GET", path |-> <<"user_about", Author>>, data |-> EmptyDict]

\* Multireddit._fetch_data
MultiRequest ==
    [verb |-> "GET", path |-> <<"multireddit_api", MultiName, Author>>,
     data |-> EmptyDict]

SubredditArgs == {"redditdev"}
Settings == {[display_name |-> "new"], [subreddits |-> <<[name |-> "redditdev"]>>]}
DisplayNames == {None, Some(<<>>), Some(<<"A", " ", "b">>)}

\* The request of each operation itself.
OwnRequest(op) ==
    CASE op.name = "multi.add" ->
           [verb |-> "PUT", path |-> <<"multireddit_update", MultiName, Author, op.subreddit>>,
            data |-> [model |-> [name |-> op.subreddit]]]
      [] op.name = "multi.remove" ->
           [verb |-> "DELETE",
            path |-> <<"multireddit_update", MultiName, Author, op.subreddit>>,
            data |-> [model |-> [name |-> op.subreddit]]]
      [] op.name = "multi.delete" ->
           [verb |-> "DELETE", path |-> <<"multireddit_api", MultiName, Author>>,
            data |-> EmptyDict]
      [] op.name = "multi.update" ->
           [verb |-> "PUT", path |-> <<"multireddit_api", MultiName, Author>>,
            data |-> [model |-> op.updated_settings]]
      [] op.name = "multi.copy" ->
           [verb |-> "POST", path |-> <<"multireddit_copy">>,
            data |-> [display_name |->
                          IF op.display_name.some /\ op.display_name.val # <<>>
                          THEN op.display_name.val ELSE <<"m", "1">>,
                      from |-> <<"user", Author, "m", MultiName>>,
                      to |-> IF op.display_name.some /\ op.display_name.val # <<>>
                             THEN sluggify(op.display_name.val) ELSE <<"m", "1">>]]

\* Mutation: the author is fetched whether fetched already or not.
_ensure_author_fetched_Always(sent, request, stage) ==
    ApiAwait(sent, AuthorRequest, "author")

\* Multireddit._ensure_author_fetched() followed by the await of request.
_ensure_author_fetched(sent, request, stage) ==
    IF ~mr.author_fetched
    THEN ApiAwait(sent, AuthorRequest, "author")
    ELSE ApiAwait(sent, request, stage)

\* Multireddit.add(subreddit), up to its first await.
Multireddit_add(subreddit) ==
    /\ ApiStartQuiet([name |-> "multi.add", self |-> mr, subreddit |-> subreddit])
    /\ _ensure_author_fetched(<<>>, OwnRequest(apiOp'), "own")
    /\ UNCHANGED <<rd, mr, rule, newRule, filter, authorGets, moreVars, cmpVars, slugVars>>

\* Multireddit.remove(subreddit), up to its first await.
Multireddit_remove(subreddit) ==
    /\ ApiStartQuiet([name |-> "multi.remove", self |-> mr, subreddit |-> subreddit])
    /\ _ensure_author_fetched(<<>>, OwnRequest(apiOp'), "own")
    /\ UNCHANGED <<rd, mr, rule, newRule, filter, authorGets, moreVars, cmpVars, slugVars>>

\* Multireddit.delete(), up to its first await.
Multireddit_delete ==
    /\ ApiStartQuiet([name |-> "multi.delete", self |-> mr])
    /\ _ensure_author_fetched(<<>>, OwnRequest(apiOp'), "own")
    /\ UNCHANGED <<rd, mr, rule, newRule, filter, authorGets, moreVars, cmpVars, slugVars>>

\* Multireddit.update(**updated_settings), up to its first await.
Multireddit_update(updated_settings) ==
    /\ ApiStartQuiet([name |-> "multi.update", self |-> mr,
                      updated_settings |-> updated_settings])
    /\ _ensure_author_fetched(<<>>, OwnRequest(apiOp'), "own")
    /\ UNCHANGED <<rd, mr, rule, newRule, filter, authorGets, moreVars, cmpVars, slugVars>>

\* Multireddit._fetch(), up to its first await (in _fetch_info or _fetch_data).
Multireddit__fetch ==
    /\ ApiStartQuiet([name |-> "multi._fetch", self |-> mr])
    /\ _ensure_author_fetched(<<>>, MultiRequest, "multi")
    /\ UNCHANGED <<rd, mr, rule, newRule, filter, authorGets, moreVars, cmpVars, slugVars>>

\* `await self.load()`, followed by the rest of copy: the multireddit is
\* fetched unless it is fetched already.
load(sent, op) ==
    IF ~mr._fetched
    THEN _ensure_author_fetched(sent, MultiRequest, "multi")
    ELSE me(sent, "copy_me", OwnRequest(op), "own")

\* Multireddit.copy(display_name), up to its first await.
Multireddit_copy(display_name) ==
    /\ ApiStartQuiet([name |-> "multi.copy", self |-> mr, display_name |-> display_name])
    /\ IF display_name.some /\ display_name.val # <<>>
       THEN me(<<>>, "copy_me", OwnRequest(apiOp'), "own")
       ELSE load(<<>>, apiOp')
    /\ UNCHANGED <<rd, mr, rule, newRule, filter, authorGets, moreVars, cmpVars, slugVars>>

\* _ensure_author_fetched() resumed: Redditor._fetch marks the author fetched
\* and the caller goes on to its next request.
_ensure_author_fetched_resume(r) ==
    /\ ApiResume("author", r)
    /\ IF ~r.ok
       THEN ApiReturn(r.err, <<>>) /\ UNCHANGED <<apiLog, mr, authorGets>>
       ELSE /\ mr' = [mr EXCEPT !.author_fetched = TRUE]
            /\ authorGets' = authorGets + 1
            /\ IF apiOp.name \in {"multi._fetch", "multi.copy"}
               THEN ApiAwait(apiLog, MultiRequest, "multi")
               ELSE ApiAwait(apiLog, OwnRequest(apiOp), "own")
    /\ UNCHANGED <<rd, rule, newRule, filter, apiOp, warned, unawaited, apiCalls, moreVars,
                   cmpVars, slugVars>>

\* Multireddit._fetch() resumed with the data: self.__dict__ takes every
\* attribute of a new Multireddit made from the data, its _author too, and
\* _fetched becomes True.
_fetch_resume(r) ==
    /\ ApiResume("multi", r)
    /\ IF ~r.ok
       THEN ApiReturn(r.err, <<>>) /\ UNCHANGED <<apiLog, mr>>
       ELSE /\ mr' = [Multireddit__init__(Some(<<"redditdev">>), Some("m one"))
                      EXCEPT !._fetched = TRUE]
            /\ IF apiOp.name = "multi.copy"
               THEN me(apiLog, "copy_me", OwnRequest(apiOp), "own")
               ELSE ApiReturn("ok", <<>>) /\ UNCHANGED apiLog
    /\ UNCHANGED <<rd, rule, newRule, filter, apiOp, warned, unawaited, authorGets, apiCalls,
                   moreVars, cmpVars, slugVars>>

\* copy() resumed after `await self._reddit.user.me()`.
copy_me_resume(r) ==
    /\ ApiResume("copy_me", r)
    /\ IF ~r.ok
       THEN ApiReturn(r.err, <<>>) /\ UNCHANGED apiLog
       ELSE ApiAwait(apiLog, OwnRequest(apiOp), "own")
    /\ UNCHANGED <<rd, mr, rule, newRule, filter, apiOp, warned, unawaited, authorGets,
                   apiCalls, moreVars, cmpVars, slugVars>>

\* self._reset_attributes("subreddits"): the attribute is dropped and the
\* object counts as not fetched.
_reset_attributes(self) == [self EXCEPT !._fetched = FALSE, !.subreddits = None]

\* Mutation: add and remove reset "subreddits" when the request has failed too.
Multireddit_resume_ResetOnError(r) ==
    /\ ApiResume("own", r)
    /\ ApiReturn(IF r.ok THEN "ok" ELSE r.err, <<>>)
    /\ mr' = IF apiOp.name \in {"multi.add", "multi.remove"} THEN _reset_attributes(mr)
             ELSE mr
    /\ UNCHANGED <<rd, rule, newRule, filter, apiOp, apiLog, warned, unawaited,
                   authorGets, apiCalls, moreVars, cmpVars, slugVars>>

\* A Multireddit operation resumed after its own request: add and remove
\* reset "subreddits"; update takes every attribute of `new`, the Multireddit
\* the response was parsed into, its _author and _fetched too.
Multireddit_resume(r) ==
    /\ ApiResume("own", r)
    /\ IF ~r.ok
       THEN ApiReturn(r.err, <<>>) /\ UNCHANGED mr
       ELSE /\ ApiReturn("ok", <<>>)
            /\ mr' = CASE apiOp.name \in {"multi.add", "multi.remove"} ->
                            _reset_attributes(mr)
                       [] apiOp.name = "multi.update" ->
                            Multireddit__init__(
                                IF "subreddits" \in DOMAIN apiOp.updated_settings
                                THEN Some(<<"redditdev">>) ELSE mr.subreddits,
                                IF "display_name" \in DOMAIN apiOp.updated_settings
                                THEN Some(apiOp.updated_settings.display_name)
                                ELSE mr.display_name)
                       [] OTHER -> mr
    /\ UNCHANGED <<rd, rule, newRule, filter, apiOp, apiLog, warned, unawaited, authorGets,
                   apiCalls, moreVars, cmpVars, slugVars>>

----------------------------------------------------------------------------
\* The caller takes the result of the call; the next call can begin.
Caller_next ==
    /\ apiPc = "done"
    /\ apiPc' = "idle"
    /\ apiOp' = [name |-> ""]
    /\ apiLog' = <<>>
    /\ apiAns' = NoApiAnswer
    /\ apiRes' = NoApiResult
    /\ warned' = <<>>
    /\ unawaited' = <<>>
    /\ newRule' = <<>>
    /\ UNCHANGED <<rd, mr, rule, filter, authorGets, apiCalls, moreVars, cmpVars,
                   slugVars>>

----------------------------------------------------------------------------
InitApi ==
    /\ rd = NoRedditor
    /\ mr = Multireddit__init__(None, None)
    /\ rule \in LocalRules
    /\ newRule = <<>>
    /\ filter \in Filters
    /\ apiPc = "idle"
    /\ apiOp = [name |-> ""]
    /\ apiLog = <<>>
    /\ apiAns = NoApiAnswer
    /\ apiRes = NoApiResult
    /\ warned = <<>>
    /\ unawaited = <<>>
    /\ authorGets = 0
    /\ apiCalls = 0
    /\ IdleMore
    /\ IdleCmp
    /\ IdleSlug

NextApi ==
    \/ \E n \in NameArgs, f \in FullnameArgs, d \in DataArgs : Redditor__init__(n, f, d)
    \/ \E m \in MonthsArgs : Redditor_gild(m)
    \/ Redditor_block
    \/ Redditor_trust
    \/ \E note \in NoteArgs : Redditor_friend(note)
    \/ Redditor_unfriend
    \/ Redditor_unblock
    \/ \E r \in PlainResponses : Redditor_unblock_resume(r)
    \/ \E r \in PlainResponses : Redditor_resume(r)
    \/ \E self \in Fullnames, body \in Bodies : reply(self, body)
    \/ \E r \in ReplyResponses : reply_resume(r)
    \/ \E self \in Fullnames : clear_vote(self)
    \/ \E self \in Fullnames : downvote(self)
    \/ \E self \in Fullnames : upvote(self)
    \/ \E rule_list \in RuleLists : reorder(rule_list)
    \/ \E r \in RuleResponses : reorder_resume(r)
    \/ \E s \in AddShortNames, k \in AddKinds, d \in AddDescriptions, v \in AddReasons :
          add(s, k, d, v)
    \/ \E d \in UpdateDescriptions, k \in UpdateKinds, s \in UpdateShortNames,
          v \in UpdateReasons : update(d, k, s, v)
    \/ \E r \in RuleResponses : response0_resume(r)
    \/ delete
    \/ \E r \in PlainResponses : ignore_resume(r)
    \/ __call__
    \/ \E r \in RuleResponses : __call___resume(r)
    \/ \E s \in GetRuleArgs : get_rule(s)
    \/ \E r \in RuleResponses : get_rule_resume(r)
    \/ \E subreddit \in SubredditArgs : Multireddit_add(subreddit)
    \/ \E subreddit \in SubredditArgs : Multireddit_remove(subreddit)
    \/ Multireddit_delete
    \/ \E updated_settings \in Settings : Multireddit_update(updated_settings)
    \/ Multireddit__fetch
    \/ \E display_name \in DisplayNames : Multireddit_copy(display_name)
    \/ \E r \in PlainResponses : _ensure_author_fetched_resume(r)
    \/ \E r \in PlainResponses : _fetch_resume(r)
    \/ \E r \in PlainResponses : copy_me_resume(r)
    \/ \E r \in PlainResponses : Multireddit_resume(r)
    \/ Caller_next

SpecApi == InitApi /\ [][NextApi]_vars

----------------------------------------------------------------------------
\* Helpers of the properties.

\* Python s.split(c): the pieces of s between the occurrences of c.
RECURSIVE SplitAll(_, _)
SplitAll(s, c) ==
    LET i == FindFrom(s, c, 1)
    IN  IF i = 0 THEN <<s>>
        ELSE <<SubSeq(s, 1, i - 1)>> \o SplitAll(SubSeq(s, i + 1, Len(s)), c)

Occurrences(s, c) == Cardinality({i \in DOMAIN s : s[i] = c})

\* The placeholder invariant of the data model.
PlaceholderInvariant ==
    \/ count = 0 /\ children = <<>>
    \/ count > 0 /\ children # <<>>

\* Task t is in, or has finished, a call that found the placeholder
\* unexpanded and got as far as its request.
Fetching(t) == sawNone[t] /\ pc[t] \in {"post", "get", "done"}

\* C1: the first comments() call on an unexpanded batched placeholder
\* (count > 0, children non-empty) issues exactly one request, a POST to
\* 'morechildren' whose children field is all child IDs in list order joined
\* by commas, with link_id = submission.fullname and sort = comment_sort.
C1_BatchedOneRequest ==
    \A t \in Tasks :
        (Fetching(t) /\ count > 0 /\ children # <<>>) =>
            /\ Len(Issued(t)) = 1
            /\ LET r == Issued(t)[1].req
               IN  /\ r.verb = "POST"
                   /\ r.endpoint = API_PATH.morechildren
                   /\ SplitAll(r.children, ",") = children
                   /\ Occurrences(r.children, ",") = Len(children) - 1
                   /\ r.link_id = submission.fullname
                   /\ r.sort = submission.comment_sort

C1_Witness ==
    \E t \in Tasks :
        /\ pc[t] = "done" /\ sawNone[t] /\ count > 0 /\ Len(children) >= 2
        /\ children[1] # children[2]
        /\ res[t].outcome = "ok"

\* C2: the first comments() call on an unexpanded continuation placeholder
\* (count = 0, no children) issues exactly one request, a GET for the one
\* comment whose ID follows the first underscore of parent_id, with limit =
\* comment_limit and sort = comment_sort, and returns that parent's replies.
C2_ContinuationOneRequest ==
    \A t \in Tasks :
        (Fetching(t) /\ count = 0 /\ children = <<>>) =>
            /\ Len(Issued(t)) = 1
            /\ LET r == Issued(t)[1].req
                   k == Len(parent_id) - Len(r.comment_id)
               IN  /\ r.verb = "GET"
                   /\ r.endpoint = API_PATH.submission
                   /\ r.sub_id = submission.id
                   /\ k >= 1
                   /\ parent_id[k] = "_"
                   /\ \A i \in 1..(k - 1) : parent_id[i] # "_"
                   /\ r.comment_id = SubSeq(parent_id, k + 1, Len(parent_id))
                   /\ r.limit = submission.comment_limit
                   /\ r.sort = submission.comment_sort
            /\ (pc[t] = "done" /\ res[t].outcome = "ok") =>
                   /\ Len(answer[t].body) = 1
                   /\ res[t].value = answer[t].body[1]

C2_Witness ==
    \E t \in Tasks :
        /\ pc[t] = "done" /\ sawNone[t] /\ count = 0 /\ children = <<>>
        /\ Occurrences(parent_id, "_") = 2
        /\ res[t].outcome = "ok" /\ Len(res[t].value) >= 1

\* C3: whenever a comments(update=True) call returns, every returned node has
\* its submission back-reference equal to the owning submission, also after
\* earlier comments() calls made with update=False.
C3_UpdateAlwaysPropagates ==
    \A t \in Tasks :
        (pc[t] = "done" /\ upd[t] /\ res[t].outcome = "ok") =>
            \A n \in Range(res[t].value) : nodeSub[n] = submission.id

\* C4: if the transport raises during comments(), the same error reaches the
\* caller, exactly one request was attempted, the cached result is left as
\* it was (unset when no call has succeeded), and a later comments() call on
\* the still unexpanded placeholder issues a fresh request.
C4_Step ==
    \A t \in Tasks :
        /\ (pc[t] \in {"post", "get"} /\ pc'[t] = "done" /\ ~answer'[t].ok
                /\ answer'[t].err # "") =>
              /\ res'[t].outcome = "error"
              /\ res'[t].err = answer'[t].err
              /\ Len(Issued(t)') = 1
              /\ log' = log
              /\ cache' = cache
              /\ (okCalls = 0 => ~cache'.some)
        /\ (pc[t] = "done" /\ res[t].outcome = "error" /\ ~cache.some
                /\ callno'[t] # callno[t]) =>
              /\ Len(log') = Len(log) + 1
              /\ pc'[t] \in {"post", "get"}

C4_ErrorPropagates == [][C4_Step]_vars

C4_Witness ==
    \E t \in Tasks :
        /\ pc[t] \in {"post", "get"} /\ ~cache.some
        /\ res[t].outcome = "error" /\ res[t].err = "Forbidden"
        /\ Len(log) = 2 /\ ncalls = 2

\* C5: for a continuation or a batched placeholder, when the fetch returns an
\* empty result, comments() completes without raising and returns an empty
\* sequence.
C5_EmptyResultIsValid ==
    \A t \in Tasks :
        (pc[t] = "done" /\ sawNone[t] /\ answer[t].ok /\ answer[t].body = <<>>) =>
            /\ res[t].outcome = "ok"
            /\ res[t].value = <<>>

\* C8: comments() issues a request only for a placeholder that satisfies the
\* placeholder invariant; for one that violates it, comments() fails before
\* any request is issued and leaves the placeholder unexpanded.
C8_RequestOnlyIfInvariant ==
    /\ (log # <<>> => PlaceholderInvariant)
    /\ ~PlaceholderInvariant =>
          /\ ~cache.some
          /\ \A t \in Tasks :
                pc[t] # "idle" =>
                    /\ pc[t] = "done"
                    /\ res[t].outcome = "AssertionError"
                    /\ Issued(t) = <<>>

C8_Witness ==
    /\ \E t \in Tasks : pc[t] = "done" /\ res[t].outcome = "AssertionError"
    /\ ncalls = 2
    /\ \/ count = 0 /\ children # <<>>
       \/ count > 0 /\ children = <<>>

\* The objects of ph that are MoreComments placeholders.
IsPlaceholder(i) == ph[i].cls = "MoreComments"

MaxOf(S) == CHOOSE m \in S : \A x \in S : x <= m

\* C6: A < B holds exactly when A.count > B.count; with counts 5 and 10,
\* A < B is false and B < A is true; a minimum of a set of placeholders
\* under '<' is one with the largest count.
C6_MaxCountFirst ==
    ltRes.some =>
        LET lt == ltRes.val
            P == {i \in DOMAIN ph : IsPlaceholder(i)}
        IN  /\ \A i, j \in P : lt[i][j] <=> ph[i].count > ph[j].count
            /\ \A i, j \in P :
                  (ph[i].count = 5 /\ ph[j].count = 10) => ~lt[i][j] /\ lt[j][i]
            /\ \A m \in P :
                  (\A x \in P : ~lt[x][m]) =>
                      ph[m].count = MaxOf({ph[x].count : x \in P})

C6_Witness ==
    /\ ltRes.some
    /\ IsPlaceholder(2)
    /\ ph[1].count = 5 /\ ph[2].count = 10 /\ ph[3].count = 0
    /\ ~ltRes.val[1][2] /\ ltRes.val[2][1]

\* C7: two placeholders compare equal if and only if their counts are equal
\* and their children lists are equal element by element in the same order;
\* parent_id, submission and the cached result do not matter.
C7_EqualityIsCountAndChildren ==
    eqRes.some =>
        \A i, j \in {k \in DOMAIN ph : IsPlaceholder(k)} :
            eqRes.val[i][j] <=>
                /\ ph[i].count = ph[j].count
                /\ Len(ph[i].children) = Len(ph[j].children)
                /\ \A k \in 1..Len(ph[i].children) :
                      ph[i].children[k] = ph[j].children[k]

C7_Witness ==
    /\ eqRes.some
    /\ IsPlaceholder(2)
    /\ eqRes.val[1][2]
    /\ Len(ph[1].children) = 2
    /\ ph[1].parent_id # ph[2].parent_id
    /\ ph[1].submission # ph[2].submission
    /\ ph[1]._comments # ph[2]._comments

\* The characters [a-z0-9_].
SlugChars == AsciiLower \cup AsciiDigits \cup {"_"}

\* C9: for any input string, the output of sluggify has length at most 21.
C9_SlugLength == slug.some => Len(slug.val) <= 21

C9_Witness ==
    /\ slug.some
    /\ Len(Clean(title)) > 21
    /\ Len(slug.val) = 21

\* C10 as stated: for any input string, the output of sluggify contains no
\* character outside [a-z0-9_].
C10_OnlySlugChars ==
    slug.some => \A i \in DOMAIN slug.val : slug.val[i] \in SlugChars

\* C10 as amended: every character of the output is in [a-z0-9_] or belongs
\* to the lower-case form of a non-ASCII character of the input; so an
\* ASCII input gives an output within [a-z0-9_].
C10_OnlySlugCharsForAscii ==
    slug.some =>
        /\ \A i \in DOMAIN slug.val :
              \/ slug.val[i] \in SlugChars
              \/ \E k \in DOMAIN title :
                    /\ title[k] \notin Ascii
                    /\ slug.val[i] \in Range(LowerChar(title[k]))
        /\ (Range(title) \subseteq Ascii => Range(slug.val) \subseteq SlugChars)

C10_Witness ==
    /\ slug.some
    /\ Range(title) \subseteq Ascii
    /\ Range(title) \cap AsciiUpper # {}
    /\ Range(title) \cap AsciiNonWord # {}
    /\ "_" \in Range(slug.val)
    /\ "a" \in Range(slug.val)

\* C11: the output of sluggify is non-empty and neither starts nor ends with
\* "_" unless it is exactly "_"; it is "_" for the empty string and for any
\* input made only of non-word characters and underscores; also when the
\* cleaned title is truncated at 21 characters.
C11_NoOuterUnderscore ==
    slug.some =>
        /\ slug.val # <<>>
        /\ slug.val # <<"_">> =>
              /\ slug.val[1] # "_"
              /\ slug.val[Len(slug.val)] # "_"
        /\ (\A i \in DOMAIN title : ~IsAlnum(title[i])) => slug.val = <<"_">>

\* The cut at 21 characters falls right after a word break.
C11_Witness ==
    /\ slug.some
    /\ Len(Clean(title)) > 21
    /\ Clean(title)[21] = "_"
    /\ Len(slug.val) = 20

\* C13: gild(months) with months < 1 or months > 36 raises a local validation
\* error and sends nothing; with 1 <= months <= 36 it sends exactly one POST to
\* the gild endpoint that carries months.
C13_GildValidation ==
    apiOp.name = "gild" =>
        IF apiOp.months < 1 \/ apiOp.months > 36
        THEN apiPc = "done" /\ apiRes.outcome = "TypeError" /\ apiLog = <<>>
        ELSE /\ apiLog = <<[verb |-> "POST", path |-> <<"gild_user", rd.name.val>>,
                            data |-> [months |-> apiOp.months]]>>
             /\ apiRes.outcome # "TypeError"

\* gild(36) has sent its request and returned.
C13_Witness ==
    /\ apiOp.name = "gild"
    /\ apiOp.months = 36
    /\ apiPc = "done"
    /\ apiRes.outcome = "ok"
    /\ Len(apiLog) = 1

\* The number of constructor arguments that are provided (not None).
Provided(op) ==
    Cardinality({i \in 1..3 : <<op.a_name, op.a_fullname, op.a_data>>[i] # None})

C16_ReplyFirstOrNone ==
    apiOp.name = "reply" =>
        /\ apiLog = <<[verb |-> "POST", path |-> <<"comment">>,
                       data |-> [text |-> apiOp.body, thing_id |-> apiOp.self]]>>
        /\ apiPc = "done" /\ apiAns.ok =>
              /\ apiRes.outcome = "ok"
              /\ apiRes.value = IF apiAns.body = <<>> THEN None
                                ELSE Some(apiAns.body[1])

\* reply() resumed with an empty response.
C16_Witness ==
    /\ apiOp.name = "reply"
    /\ apiPc = "done"
    /\ apiAns.ok
    /\ apiAns.body = <<>>
    /\ apiRes = [outcome |-> "ok", value |-> None]

\* The dir value of each voting method.
VoteDir(opname) ==
    CASE opname = "upvote" -> "1"
      [] opname = "downvote" -> "-1"
      [] opname = "clear_vote" -> "0"

\* C17: upvote(), downvote() and clear_vote() send exactly one POST to the
\* vote endpoint with id = the object's fullname and dir = "1", "-1" or "0";
\* when the call has returned the request has been issued.
C17_VoteIssued ==
    apiOp.name \in {"upvote", "downvote", "clear_vote"} /\ apiPc = "done" =>
        apiLog = <<[verb |-> "POST", path |-> <<"vote">>,
                    data |-> [dir |-> VoteDir(apiOp.name), id |-> apiOp.self]]>>

\* The short names of the model, URL-escaped.
Escaped(short_name) ==
    IF short_name = <<"a", " ", "b">> THEN <<"a", "%", "2", "0", "b">> ELSE short_name

\* C12: reorder(rule_list) sends exactly one POST whose new_rule_order is the
\* rules' short names in the order of rule_list, URL-escaped and joined by
\* unescaped commas; it returns the server's list in the server's order, each
\* returned rule with its subreddit set to the owning subreddit.
C12_ReorderServerTrust ==
    apiOp.name = "reorder" =>
        /\ Len(apiLog) = 1
        /\ apiLog[1].verb = "POST"
        /\ apiLog[1].path = <<"reorder_subreddit_rules">>
        /\ apiLog[1].data.new_rule_order =
              Join(<<",">>, [i \in DOMAIN apiOp.rule_list |->
                                Escaped(apiOp.rule_list[i].short_name)])
        /\ apiPc = "done" /\ apiAns.ok =>
              /\ apiRes.outcome = "ok"
              /\ Len(apiRes.value) = Len(apiAns.body)
              /\ \A i \in DOMAIN apiAns.body :
                    /\ apiRes.value[i].short_name = apiAns.body[i].short_name
                    /\ apiRes.value[i].subreddit = Some("test")

\* [r3, r1, r2] was sent as "r3,r1,r2" and the server answered another order.
C12_Witness ==
    /\ apiOp.name = "reorder"
    /\ Len(apiOp.rule_list) = 3
    /\ apiLog[1].data.new_rule_order = <<"r", "3", ",", "r", "1", ",", "r", "2">>
    /\ apiPc = "done"
    /\ apiRes.outcome = "ok"
    /\ Len(apiRes.value) = 2
    /\ apiRes.value[1].short_name = <<"r", "2">>

\* What update sends for one field.
Sent(arg, existing) == IF arg.some THEN arg.val ELSE existing

\* C18: update sends, for description, kind, short_name and violation_reason,
\* the argument when it is given (an empty string is given) and the rule's
\* existing value when it is None; old_short_name is the rule's short_name;
\* the local rule is not modified and the returned rule has the rule's
\* subreddit.
C18_UpdateSendsGivenOrExisting ==
    /\ [](apiOp.name = "rule.update" =>
            /\ Len(apiLog) = 1
            /\ apiLog[1].verb = "POST"
            /\ apiLog[1].data.old_short_name = rule.short_name
            /\ apiLog[1].data.description = Sent(apiOp.description, rule.description)
            /\ apiLog[1].data.kind = Sent(apiOp.kind, rule.kind)
            /\ apiLog[1].data.short_name = Sent(apiOp.short_name, rule.short_name)
            /\ apiLog[1].data.violation_reason =
                  Sent(apiOp.violation_reason, rule.violation_reason)
            /\ apiPc = "done" /\ apiRes.outcome = "ok" =>
                  /\ apiRes.value.subreddit = rule.subreddit
                  /\ apiRes.value.short_name = apiAns.body[1].short_name)
    /\ [][apiOp'.name = "rule.update" => rule' = rule]_vars

\* update(description="") on a rule whose description is not empty returned.
C18_Witness ==
    /\ apiOp.name = "rule.update"
    /\ apiOp.description = Some(<<>>)
    /\ apiOp.short_name = None
    /\ rule.description # <<>>
    /\ apiLog[1].data.description = <<>>
    /\ apiPc = "done"
    /\ apiRes.outcome = "ok"

\* C19: calling the SubredditRules object always emits the DeprecationWarning
\* before any request; when the warning is an error the call raises it and
\* sends nothing, otherwise it sends one GET for the rules.
C19_CallWarnsFirst ==
    apiOp.name = "__call__" =>
        /\ Len(warned) = 1
        /\ warned[1].category = "DeprecationWarning"
        /\ IF filter = "error"
           THEN apiPc = "done" /\ apiRes.outcome = "DeprecationWarning" /\ apiLog = <<>>
           ELSE /\ apiLog = <<[verb |-> "GET", path |-> <<"rules", "test">>,
                               data |-> EmptyDict]>>
                /\ apiRes.outcome # "DeprecationWarning"

\* The call was made while deprecation warnings are errors.
C19_Witness ==
    /\ apiOp.name = "__call__"
    /\ filter = "error"
    /\ apiRes.outcome = "DeprecationWarning"
    /\ warned # <<>>

\* The operations the claim names, by the objects that are their subject.
RedditorOps == {"gild", "block", "trust", "friend", "unfriend", "unblock"}
RuleOps == {"rules.add", "rule.update", "rule.delete", "reorder", "get_rule"}
MultiredditOps == {"multi.add", "multi.remove", "multi.delete", "multi.update",
                   "multi.copy"}

\* C15: every public operation of the Redditor, Multireddit and Rule models
\* issues exactly one request per call, whatever the fetched state of the
\* object and of its author.
C15_ExactlyOneRequest ==
    /\ apiPc = "done"
    /\ apiRes.outcome = "ok"
    /\ apiOp.name \in RedditorOps \cup RuleOps \cup MultiredditOps
    => Len(apiLog) = 1

\* The requests of a call before its last one.
Before(requests) == SubSeq(requests, 1, Len(requests) - 1)

\* C15, amended: a call that returns has sent exactly one request of its own,
\* as its last; block, trust, friend, unfriend, gild and the rule operations
\* send nothing else; add, remove, delete and update of a Multireddit send
\* before it one GET for the author exactly when the author was not fetched;
\* unblock and copy send before it only GETs (the authenticated user, and for
\* copy without display_name the load of the multireddit).
C15_OneOwnRequest ==
    /\ apiPc = "done"
    /\ apiRes.outcome = "ok"
    /\ apiOp.name \in RedditorOps \cup RuleOps \cup MultiredditOps
    => /\ apiLog # <<>>
       /\ apiOp.name \in (RedditorOps \cup RuleOps) \ {"unblock"} => Len(apiLog) = 1
       /\ apiOp.name \in MultiredditOps \ {"multi.copy"} =>
             /\ apiLog[Len(apiLog)].verb \in {"PUT", "DELETE"}
             /\ Before(apiLog) =
                   IF apiOp.self.author_fetched THEN <<>>
                   ELSE <<[verb |-> "GET", path |-> <<"user_about", "alice">>,
                           data |-> EmptyDict]>>
       /\ apiOp.name \in {"unblock", "multi.copy"} =>
             /\ apiLog[Len(apiLog)].verb = "POST"
             /\ \A i \in DOMAIN Before(apiLog) : apiLog[i].verb = "GET"
             /\ apiOp.name = "unblock" => Len(apiLog) <= 2
             /\ apiOp.name = "multi.copy" => Len(apiLog) <= 4

\* add() returned on a Multireddit whose author was not fetched: two requests.
C15_Witness ==
    /\ apiOp.name = "multi.add"
    /\ ~apiOp.self.author_fetched
    /\ apiPc = "done"
    /\ apiRes.outcome = "ok"
    /\ Len(apiLog) = 2

\* C20: in any sequence of add, remove, update and delete calls and re-fetches
\* on one Multireddit, the author's data is fetched at most once.
C20_AuthorFetchedOnce == authorGets <= 1

\* C21: add sends violation_reason = short_name when violation_reason is None
\* and the given violation_reason otherwise; description defaults to the empty
\* string; the returned rule is the first element of the response with its
\* subreddit set to the owning subreddit.
C21_AddDefaults ==
    apiOp.name = "rules.add" =>
        /\ Len(apiLog) = 1
        /\ apiLog[1].verb = "POST"
        /\ apiLog[1].data.short_name = apiOp.short_name
        /\ apiLog[1].data.violation_reason =
              IF apiOp.violation_reason.some THEN apiOp.violation_reason.val
              ELSE apiOp.short_name
        /\ apiLog[1].data.description =
              IF apiOp.description.passed THEN apiOp.description.val ELSE <<>>
        /\ apiPc = "done" /\ apiRes.outcome = "ok" =>
              /\ apiAns.body # <<>>
              /\ apiRes.value = [apiAns.body[1] EXCEPT !.subreddit = Some("test")]

\* add(short_name, kind, violation_reason="") without description returned the
\* first of two rules.
C21_Witness ==
    /\ apiOp.name = "rules.add"
    /\ apiOp.violation_reason = Some(<<>>)
    /\ ~apiOp.description.passed
    /\ apiPc = "done"
    /\ apiRes.outcome = "ok"
    /\ Len(apiAns.body) = 2
    /\ apiRes.value.short_name = <<"r", "2">>

\* The rules of the answer as _rule_list hands them on.
WithSubreddit(body) == [i \in DOMAIN body |-> [body[i] EXCEPT !.subreddit = Some("test")]]

\* A slice bound counted from the end when negative, kept within 0..n.
Clamp(x, n) ==
    LET y == IF x < 0 THEN x + n ELSE x
    IN  IF y < 0 THEN 0 ELSE IF y > n THEN n ELSE y

\* C22: get_rule with a non-string argument fetches the rule list once and
\* indexes it: an integer i with 0 <= i < n gives the i-th rule counted from
\* 0, a negative integer counts from the end, a slice gives the sub-list, an
\* integer outside -n..n-1 raises IndexError; every rule returned has its
\* subreddit set.
C22_GetRuleIndexes ==
    apiOp.name = "get_rule" /\ apiOp.short_name.type # "str" =>
        /\ apiLog = <<[verb |-> "GET", path |-> <<"rules", "test">>, data |-> EmptyDict]>>
        /\ apiPc = "done" /\ apiAns.ok =>
              LET B == WithSubreddit(apiAns.body)
                  n == Len(B)
                  x == apiOp.short_name
              IN  IF x.type = "int"
                  THEN IF 0 <= x.int /\ x.int < n
                       THEN apiRes = [outcome |-> "ok", value |-> B[x.int + 1]]
                       ELSE IF -n <= x.int /\ x.int < 0
                       THEN apiRes = [outcome |-> "ok", value |-> B[n + x.int + 1]]
                       ELSE apiRes.outcome = "IndexError"
                  ELSE LET lo == IF "start" \in DOMAIN x THEN Clamp(x.start, n) ELSE 0
                           hi == IF "stop" \in DOMAIN x THEN Clamp(x.stop, n) ELSE n
                       IN  /\ apiRes.outcome = "ok"
                           /\ Len(apiRes.value) = IF hi > lo THEN hi - lo ELSE 0
                           /\ \A k \in DOMAIN apiRes.value : apiRes.value[k] = B[lo + k]

\* get_rule(-1) returned the last of three rules.
C22_Witness ==
    /\ apiOp.name = "get_rule"
    /\ apiOp.short_name = [type |-> "int", int |-> -1]
    /\ apiPc = "done"
    /\ Len(apiAns.body) = 3
    /\ apiRes.outcome = "ok"
    /\ apiRes.value.short_name = apiAns.body[3].short_name
    /\ apiRes.value.short_name # apiAns.body[1].short_name

\* The positions of the answer's rules that have the short name.
Named(body, short_name) == {i \in DOMAIN body : body[i].short_name = short_name}

\* C28: Rule._fetch fetches the rule list once; if some rule has the requested
\* short_name the Rule takes the attributes of the first such rule and is
\* marked fetched; if none has it ClientException is raised and the Rule stays
\* unfetched with its attributes unchanged.
C28_FetchFirstNamed ==
    apiOp.name = "get_rule" /\ apiOp.short_name.type = "str" =>
        /\ Len(apiLog) = 1
        /\ apiPc = "done" /\ apiAns.ok =>
              LET B == WithSubreddit(apiAns.body)
                  hits == Named(B, apiOp.short_name.str)
              IN  IF hits # {}
                  THEN LET first == CHOOSE i \in hits : \A j \in hits : i <= j
                       IN  /\ apiRes.outcome = "ok"
                           /\ newRule._fetched
                           /\ \A k \in DOMAIN B[first] : newRule[k] = B[first][k]
                           /\ apiRes.value = newRule
                  ELSE /\ apiRes.outcome = "ClientException"
                       /\ newRule = [short_name |-> apiOp.short_name.str,
                                     subreddit |-> Some("test"), _fetched |-> FALSE]

\* Two rules of the list have the short name; the Rule took the first.
C28_Witness ==
    /\ apiOp.name = "get_rule"
    /\ apiOp.short_name.type = "str"
    /\ apiPc = "done"
    /\ apiRes.outcome = "ok"
    /\ Cardinality(Named(apiAns.body, apiOp.short_name.str)) = 2
    /\ newRule.description = <<"d">>

\* The positions of "_" among the first 21 characters of a cleaned title.
Breaks(c) == {i \in 1..21 : i <= Len(c) /\ c[i] = "_"}

\* C23: when the cleaned title is longer than 21 characters sluggify returns a
\* prefix of it that ends at the end of a whole word (the character that
\* follows the result in the cleaned title is "_"); a cleaned title of at most
\* 21 characters is returned unchanged.
C23_WholeWords ==
    slug.some =>
        LET c == Clean(title)
            n == Len(slug.val)
        IN  IF Len(c) > 21
            THEN /\ n < Len(c)
                 /\ slug.val = SubSeq(c, 1, n)
                 /\ c[n + 1] = "_"
            ELSE slug.val = c

\* C23, amended: a cleaned title longer than 21 characters is cut right before
\* the last "_" among its first 21 characters, and to its first 21 characters
\* when there is no "_" among them (the first word is then cut in the middle);
\* a cleaned title of at most 21 characters is returned unchanged, "_" standing
\* for the empty one.
C23_WholeWordsIfAny ==
    slug.some =>
        LET c == Clean(title)
        IN  IF Len(c) > 21
            THEN IF Breaks(c) # {}
                 THEN LET last == CHOOSE i \in Breaks(c) : \A j \in Breaks(c) : j <= i
                      IN  /\ slug.val = SubSeq(c, 1, last - 1)
                          /\ c[Len(slug.val) + 1] = "_"
                 ELSE slug.val = SubSeq(c, 1, 21)
            ELSE IF c = <<>> THEN slug.val = <<"_">>
            ELSE slug.val = c

\* A long title whose second word does not fit was cut after its first word.
C23_Witness ==
    /\ slug.some
    /\ Len(Clean(title)) > 21
    /\ Breaks(Clean(title)) # {}
    /\ Len(slug.val) < 20
    /\ Clean(title)[Len(slug.val) + 1] = "_"
    /\ Clean(title)[21] # "_"

\* C29: sluggify is idempotent: for every input string s,
\* sluggify(sluggify(s)) = sluggify(s).
C29_Idempotent == slug.some => sluggify(slug.val) = slug.val

\* C24: add and remove reset the cached "subreddits" only after their request
\* has succeeded; if the author fetch or the request raises, the error leaves
\* the call and "subreddits" is unchanged; no other attribute is reset.
C24_ResetAfterSuccess ==
    apiOp.name \in {"multi.add", "multi.remove"} =>
        /\ mr.display_name = apiOp.self.display_name
        /\ apiOp.self.author_fetched => mr.author_fetched
        /\ IF apiPc = "done" /\ apiRes.outcome = "ok"
           THEN mr.subreddits = None
           ELSE mr.subreddits = apiOp.self.subreddits
        /\ apiPc = "done" /\ ~apiAns.ok => apiRes.outcome = apiAns.err

\* The request of add() failed on a Multireddit that had its subreddits.
C24_Witness ==
    /\ apiOp.name = "multi.add"
    /\ apiPc = "done"
    /\ Len(apiLog) = 2
    /\ apiRes.outcome = "ServerError"
    /\ mr.subreddits # None
    /\ mr.display_name # None

\* C25: when two tasks call comments() on the same unexpanded placeholder and
\* the second call starts while the first is suspended on its request, at
\* most one request is issued for the placeholder in total, and both callers
\* receive the same sequence.
C25_SingleFlight ==
    \A t, u \in Tasks :
        t # u =>
            /\ Suspended(t) /\ Suspended(u) =>
                  Len(Issued(t)) + Len(Issued(u)) <= 1
            /\ (/\ Fetching(t) /\ Fetching(u)
                /\ res[t].outcome = "ok" /\ res[u].outcome = "ok"
                /\ pc[t] = "done" /\ pc[u] = "done") =>
                  res[t].value = res[u].value

\* A call of comments() that starts once a call has completed successfully.
LaterCall(t) == okCalls >= 1 /\ callno'[t] # callno[t]

\* C26: expansion is memoized: after one comments() call has completed
\* successfully (an empty result included), every later call issues no request
\* and returns the same sequence, for continuation and batched placeholders;
\* over calls that follow one another at most one request succeeds.
C26_Memoized ==
    /\ [](/\ okCalls <= 1
          /\ okCalls = 1 <=> cache.some
          /\ \A t \in Tasks :
                pc[t] = "done" /\ res[t].outcome = "ok" =>
                    cache.some /\ res[t].value = cache.val)
    /\ [][\A t \in Tasks :
            LaterCall(t) =>
                /\ log' = log
                /\ cache' = cache
                /\ okCalls' = okCalls
                /\ pc'[t] = "done"
                /\ res'[t] = [outcome |-> "ok", value |-> cache.val, err |-> ""]]_vars

\* The second call on a continuation placeholder whose expansion was empty
\* has returned the cached empty sequence; one request was sent.
C26_Witness ==
    \E t \in Tasks :
        /\ count = 0
        /\ pc[t] = "done" /\ ~sawNone[t] /\ callno[t] = 2
        /\ res[t].outcome = "ok" /\ res[t].value = <<>>
        /\ cache = Some(<<>>)
        /\ okCalls = 1
        /\ Len(log) = 1

\* The step is one of the call of task t: the call starts, or moves on.
StepOf(t) == callno'[t] # callno[t] \/ pc'[t] # pc[t]

\* C27: a comments(update=False) call never changes the submission
\* back-reference of any node, returned or not, and no comments() call, with
\* either value of update, changes count, children, parent_id or submission
\* of the placeholder.
C27_Frame ==
    [][/\ <<count, children, parent_id, submission>>' =
              <<count, children, parent_id, submission>>
       /\ \A t \in Tasks :
             StepOf(t) /\ ~upd'[t] => nodeSub' = nodeSub]_vars

\* A comments(update=False) call has returned two nodes and their
\* back-references are still unset.
C27_Witness ==
    \E t \in Tasks :
        /\ pc[t] = "done" /\ ~upd[t] /\ sawNone[t]
        /\ res[t].outcome = "ok" /\ Len(res[t].value) = 2
        /\ \A n \in AllNodes : nodeSub[n] = NoSub

\* The placeholders among the compared objects.
ComparedPlaceholders == {i \in DOMAIN ph : IsPlaceholder(i)}

\* C30: the ordering of placeholders is a strict order consistent with
\* equality: for placeholders A, B, C with integer counts, not A < A; A < B
\* implies not B < A; A < B and B < C imply A < C; A == B implies neither
\* A < B nor B < A.
C30_StrictOrder ==
    ltRes.some /\ eqRes.some =>
        LET lt == ltRes.val
            eq == eqRes.val
            P == ComparedPlaceholders
        IN  /\ \A a \in P : ~lt[a][a]
            /\ \A a, b \in P : lt[a][b] => ~lt[b][a]
            /\ \A a, b, c \in P : lt[a][b] /\ lt[b][c] => lt[a][c]
            /\ \A a, b \in P : eq[a][b] => ~lt[a][b] /\ ~lt[b][a]

\* Three placeholders in a chain A < B < C have been compared with one
\* another and with themselves.
C30_Witness ==
    /\ ltRes.some /\ eqRes.some
    /\ ComparedPlaceholders = {1, 2, 3}
    /\ \E a, b, c \in ComparedPlaceholders :
          /\ ltRes.val[a][b] /\ ltRes.val[b][c] /\ ltRes.val[a][c]
          /\ ~ltRes.val[c][a]
    /\ \A a \in ComparedPlaceholders : eqRes.val[a][a]

====
